---- MODULE Spec2Model ----
(***************************************************************************)
(* LanguageBridge: the toolbar's playback controller (content/toolbar.ts)  *)
(* and the speech / translation client it drives (content/azure-client.ts).*)
(*                                                                         *)
(* JavaScript runs one task at a time.  Every action below is one task:    *)
(* a user event handler or the continuation of an awaited promise, run up  *)
(* to its next real suspension point (network reply, timer, audio event).  *)
(* The statements of one task are composed as functions on a record s that *)
(* holds every field of the program; Commit(s) installs the result.        *)
(*                                                                         *)
(* Strings are sequences of one-character strings.  The non-ASCII sentence *)
(* terminators of the source are written by their code points.             *)
(***************************************************************************)
EXTENDS Integers, Sequences, FiniteSets, TLC

VARIABLES
  \* LanguageBridgeToolbar fields
  isReading, isPaused, isTranslating, abortController,
  cachedTranslation, translationSentences, currentSentenceIndex,
  userLanguage, selectedText,
  \* AbortSignal.aborted of the controller minted by each invocation
  aborted,
  \* AzureClient fields
  speechKey, demoPassword, playbackTimeout, synthesizer, translationCache,
  recognizer,
  \* conversation panel: the mic buttons and transcript areas, and the
  \* activations of handleTeacherSpeak / handleStudentSpeak
  buttons, turns, nTurns,
  \* activations of the async methods readText / resumeReading
  inv, nInv,
  \* number of user events and direct calls so far
  nOps,
  \* history variables (read by the properties only)
  pauseK, lastOp

vars == <<isReading, isPaused, isTranslating, abortController,
          cachedTranslation, translationSentences, currentSentenceIndex,
          userLanguage, selectedText, aborted,
          speechKey, demoPassword, playbackTimeout, synthesizer,
          translationCache, recognizer, buttons, turns, nTurns,
          inv, nInv, nOps, pauseK, lastOp>>

(***************************************************************************)
(* Bounds and input sets                                                   *)
(***************************************************************************)
\* number of user events (clicks, selections, settings messages, direct
\* calls) in one run; each starts at most one activation
MaxOps == 4
Invs == 1..MaxOps

\* number of direct method calls in one run of the harness
MaxCalls == 2

EN == <<"e", "n">>
FA == <<"f", "a">>
Langs == {EN, FA}

TextA == <<"a", ".", " ", "b", ".", " ", "c", ".">>
TextB == <<"d", "?">>
InputTexts == {TextA, TextB}

\* null, as distinct from every string
NullText == <<"<null>">>

\* JavaScript truthiness of a string-or-null value
Truthy(str) == str # NullText /\ str # <<>>

(***************************************************************************)
(* Sentence segmenter                                                      *)
(***************************************************************************)
\* the character class [.!?؟؛۔¿] of sentenceRegex
Terminators == {".", "!", "?", "U061F", "U061B", "U06D4", "U00BF"}
WhiteSpace == {" "}

RECURSIVE TrimStart(_)
TrimStart(str) ==
  IF str # <<>> /\ Head(str) \in WhiteSpace THEN TrimStart(Tail(str)) ELSE str

RECURSIVE TrimEnd(_)
TrimEnd(str) ==
  IF str # <<>> /\ str[Len(str)] \in WhiteSpace
    THEN TrimEnd(SubSeq(str, 1, Len(str) - 1)) ELSE str

\* String.prototype.trim
Trim(str) == TrimEnd(TrimStart(str))

\* last index of the maximal run of characters in (or not in) Terminators
\* that starts at p
RECURSIVE RunEnd(_, _, _)
RunEnd(str, p, inClass) ==
  IF p < Len(str) /\ ((str[p + 1] \in Terminators) = inClass)
    THEN RunEnd(str, p + 1, inClass) ELSE p

\* text.match(/[^T]+[T]+/g): the successive leftmost greedy matches
RECURSIVE MatchAll(_, _, _)
MatchAll(str, p, acc) ==
  IF p > Len(str) THEN acc
  ELSE IF str[p] \in Terminators THEN MatchAll(str, p + 1, acc)
  ELSE LET q == RunEnd(str, p, FALSE) IN
       IF q = Len(str) THEN acc
       ELSE LET r == RunEnd(str, q + 1, TRUE) IN
            MatchAll(str, r + 1, Append(acc, SubSeq(str, p, r)))

\* sentences.map(trim).filter(nonempty)
RECURSIVE TrimAndFilter(_)
TrimAndFilter(ss) ==
  IF ss = <<>> THEN <<>>
  ELSE LET t == Trim(Head(ss)) IN
       IF Len(t) > 0 THEN <<t>> \o TrimAndFilter(Tail(ss))
       ELSE TrimAndFilter(Tail(ss))

\* variant: the matches are returned as they are
splitIntoSentencesRaw(text) ==
  LET m == MatchAll(text, 1, <<>>)
  IN IF m = <<>> THEN <<text>> ELSE m

splitIntoSentences(text) ==
  LET m == MatchAll(text, 1, <<>>)
      sentences == IF m = <<>> THEN <<text>> ELSE m
  IN TrimAndFilter(sentences)

\* Array.prototype.slice(from) with a 0-based index
Slice(seq, from) ==
  IF from >= Len(seq) THEN <<>> ELSE SubSeq(seq, from + 1, Len(seq))

(***************************************************************************)
(* Remote services                                                         *)
(***************************************************************************)
\* the translation the remote translator returns for a text: every letter
\* is replaced, punctuation and spacing are kept
TrChar(c) ==
  CASE c = "a" -> "A" [] c = "b" -> "B" [] c = "c" -> "C" [] c = "d" -> "D"
    [] OTHER -> c
RemoteTranslation(text) == [k \in 1..Len(text) |-> TrChar(text[k])]

\* what a fetch of the translator endpoint can produce: a 2xx reply with
\* a translation or with an empty one, a non-OK status, a network error;
\* okLimit is a 2xx reply whose request takes the stored usage counter to
\* the usage limit
Responses == {"ok", "okEmpty", "okLimit", "401", "403", "429", "500", "neterr"}
OkResponses == {"ok", "okEmpty", "okLimit"}
FailedResponses == {"401", "403", "429", "500", "neterr"}

\* voiceMap[language] || 'en-US-JennyNeural' of speakWithAzureSDK
voiceMap(language) ==
  IF language = FA THEN "fa-IR-DilaraNeural" ELSE "en-US-JennyNeural"

\* langMap[language] || 'en-US' of fallbackSpeak
langMap(language) ==
  IF language = FA THEN "fa-IR" ELSE "en-US"

(***************************************************************************)
(* Activation records                                                      *)
(***************************************************************************)
\* pc: the await the activation is suspended at
\*   stopDelay   readText, the 100 ms timer after stopReading
\*   translating readText, translateText's fetch
\*   synth       speakWithAzureSDK, speakTextAsync pending
\*   playing     speakWithAzureSDK, playback timer pending
\*   hung        speakWithAzureSDK, playback timer cleared: never settles
\*   utter       fallbackSpeak, utterance queued or spoken
\*   gap         speakFromCurrentPosition, the 400 ms timer
NoInv == [kind |-> "none", pc |-> "none", text |-> <<>>, toLang |-> <<>>,
          rem |-> <<>>, start |-> 0, i |-> 0, gi |-> 0,
          voice |-> "", audible |-> FALSE,
          trResp |-> "none", afterStop |-> FALSE]

\* a finished activation keeps nothing
DoneInv == [NoInv EXCEPT !.pc = "done"]

SpeakPcs == {"synth", "playing", "hung", "utter"}
LoopPcs == SpeakPcs \cup {"gap"}

\* the turns of the conversation panel
MaxTurns == 2
Turns == 1..MaxTurns
Roles == {"teacher", "student"}

\* the label of a mic button that is ready
ReadyLabel(role) == IF role = "teacher" THEN "Teacher Speak" ELSE "Student Speak"

\* a mic button and the transcript area under it; transcript: what the
\* area shows (empty, an entry, the error line)
ReadyButton(role) ==
  [listening |-> FALSE, label |-> ReadyLabel(role), transcript |-> "empty"]

\* one activation of handleTeacherSpeak / handleStudentSpeak and the
\* recognizer it created
\*   pc    starting     await startSpeechRecognition (Azure SDK)
\*         waiting      await the promise of the final result
\*         translating  await translateText
\*         speaking     await speakText
\*   rec   none, starting, listening, stopped
\*   timer the 10 s timer is pending
NoTurn == [role |-> "none", pc |-> "none", rec |-> "none", timer |-> FALSE]

\* the call or settlement made by the latest task, if any
\* event: a 'languagebridge-subscription-error' event was dispatched
NoOp == [op |-> "none", text |-> <<>>, val |-> <<>>, info |-> "", out |-> "",
         who |-> 0, event |-> FALSE]

\* ok, a non-OK status, or a network error
RespClass(resp) ==
  IF resp \in OkResponses THEN "ok"
  ELSE IF resp = "neterr" THEN "neterr" ELSE "status"

\* every field of the program, as one record
Cur ==
  [isReading |-> isReading, isPaused |-> isPaused,
   isTranslating |-> isTranslating, abortController |-> abortController,
   cachedTranslation |-> cachedTranslation,
   translationSentences |-> translationSentences,
   currentSentenceIndex |-> currentSentenceIndex,
   userLanguage |-> userLanguage, selectedText |-> selectedText,
   aborted |-> aborted, speechKey |-> speechKey,
   demoPassword |-> demoPassword, playbackTimeout |-> playbackTimeout,
   synthesizer |-> synthesizer, translationCache |-> translationCache,
   recognizer |-> recognizer, buttons |-> buttons, turns |-> turns,
   nTurns |-> nTurns,
   inv |-> inv, nInv |-> nInv, nOps |-> nOps,
   pauseK |-> pauseK, lastOp |-> lastOp]

Commit(s) ==
  /\ isReading' = s.isReading
  /\ isPaused' = s.isPaused
  /\ isTranslating' = s.isTranslating
  /\ abortController' = s.abortController
  /\ cachedTranslation' = s.cachedTranslation
  /\ translationSentences' = s.translationSentences
  /\ currentSentenceIndex' = s.currentSentenceIndex
  /\ userLanguage' = s.userLanguage
  /\ selectedText' = s.selectedText
  /\ aborted' = s.aborted
  /\ speechKey' = s.speechKey
  /\ demoPassword' = s.demoPassword
  /\ playbackTimeout' = s.playbackTimeout
  /\ synthesizer' = s.synthesizer
  /\ translationCache' = s.translationCache
  /\ recognizer' = s.recognizer
  /\ buttons' = s.buttons
  /\ turns' = s.turns
  /\ nTurns' = s.nTurns
  /\ inv' = s.inv
  /\ nInv' = s.nInv
  /\ nOps' = s.nOps
  /\ pauseK' = s.pauseK
  /\ lastOp' = s.lastOp

\* a task that is no call of a method: the record of the latest call lapses
Quiet(s) == [s EXCEPT !.lastOp = NoOp]

\* record of a user-level call, for the properties
Note(s, op, text, info) ==
  [s EXCEPT !.lastOp = [op |-> op, text |-> text, val |-> <<>>,
                        info |-> info, out |-> "", who |-> 0,
                        event |-> FALSE]]

Init ==
  /\ isReading = FALSE
  /\ isPaused = FALSE
  /\ isTranslating = FALSE
  /\ abortController = 0
  /\ cachedTranslation = NullText
  /\ translationSentences = <<>>
  /\ currentSentenceIndex = 0
  /\ userLanguage \in Langs
  /\ selectedText = <<>>
  /\ aborted = {}
  /\ speechKey \in BOOLEAN
  /\ demoPassword \in BOOLEAN
  /\ playbackTimeout = 0
  /\ synthesizer = 0
  /\ translationCache = <<>>
  /\ recognizer = 0
  /\ buttons = [r \in Roles |-> ReadyButton(r)]
  /\ turns = [t \in Turns |-> NoTurn]
  /\ nTurns = 0
  /\ inv = [j \in Invs |-> NoInv]
  /\ nInv = 0
  /\ nOps = 0
  /\ pauseK = 0
  /\ lastOp = NoOp

(***************************************************************************)
(* AzureClient (content/azure-client.ts)                                   *)
(***************************************************************************)
maxCacheSize == 100

\* `${fromLang}-${toLang}-${text}`
cacheKey(fromLang, toLang, text) == fromLang \o <<"-">> \o toLang \o <<"-">> \o text

\* translationCache is a Map: a sequence of [key, value] in insertion order
CacheHas(cache, key) == \E k \in 1..Len(cache) : cache[k].key = key
CacheGet(cache, key) ==
  LET k == CHOOSE k \in 1..Len(cache) : cache[k].key = key IN cache[k].value

\* variant: a new key goes first
CacheSetFirst(cache, key, value) ==
  IF CacheHas(cache, key)
    THEN [k \in 1..Len(cache) |->
            IF cache[k].key = key THEN [key |-> key, value |-> value] ELSE cache[k]]
    ELSE <<[key |-> key, value |-> value]>> \o cache

\* Map.set: an existing key keeps its place, a new key goes last
CacheSet(cache, key, value) ==
  IF CacheHas(cache, key)
    THEN [k \in 1..Len(cache) |->
            IF cache[k].key = key THEN [key |-> key, value |-> value] ELSE cache[k]]
    ELSE Append(cache, [key |-> key, value |-> value])

\* the playback timer and the synthesizer the client's fields point at, and
\* every utterance of the browser queue, are cancelled; a cleared playback
\* timer leaves its promise unsettled, a closed synthesizer may still call
\* back, a cancelled utterance still fires its end/error event
CancelAll(s) ==
  [s EXCEPT
     !.playbackTimeout = 0,
     !.synthesizer = 0,
     !.inv = [k \in Invs |->
                IF k = s.playbackTimeout /\ s.inv[k].pc = "playing"
                  THEN [s.inv[k] EXCEPT !.pc = "hung", !.audible = FALSE]
                ELSE IF k = s.synthesizer /\ s.inv[k].pc \in {"synth", "playing"}
                  THEN [s.inv[k] EXCEPT !.audible = FALSE]
                ELSE IF s.inv[k].pc = "utter"
                  THEN [s.inv[k] EXCEPT !.audible = FALSE]
                ELSE s.inv[k]]]

stopSpeaking(s) == CancelAll(s)

pauseSpeaking(s) == CancelAll(s)

\* incrementUsage: showSubscriptionError is called, and dispatches the
\* event, when the stored counter reaches the usage limit
incrementUsage(resp) == resp = "okLimit"

\* translateText up to its first real suspension: a cache hit and a missing
\* demo password return at once, otherwise the fetch is pending
translateText(s, text, fromLang, toLang) ==
  LET key == cacheKey(fromLang, toLang, text) IN
  IF CacheHas(s.translationCache, key)
    THEN LET v == CacheGet(s.translationCache, key) IN
         [pending |-> FALSE, val |-> IF Truthy(v) THEN v ELSE text]
  ELSE IF ~s.demoPassword THEN [pending |-> FALSE, val |-> text]
  ELSE [pending |-> TRUE, val |-> <<>>]

\* variant: the catch block rethrows instead of returning the original text
translateWithAzureDirectRethrows(s, text, fromLang, toLang, resp) ==
  IF resp \in OkResponses
    THEN LET data == IF resp = "okEmpty" THEN <<>> ELSE RemoteTranslation(text)
             translatedText == IF Truthy(data) THEN data ELSE text
             c1 == CacheSet(s.translationCache,
                            cacheKey(fromLang, toLang, text), translatedText)
             c2 == IF Len(c1) > maxCacheSize THEN Tail(c1) ELSE c1
         IN [s |-> [s EXCEPT !.translationCache = c2],
             out |-> "resolved", val |-> translatedText,
             event |-> incrementUsage(resp)]
    ELSE [s |-> s, out |-> "rejected", val |-> <<>>, event |-> FALSE]

\* translateWithAzureDirect from the arrival of the fetch's outcome:
\* the promise it returns settles as out/val
translateWithAzureDirect(s, text, fromLang, toLang, resp) ==
  IF resp \in OkResponses
    THEN LET data == IF resp = "okEmpty" THEN <<>> ELSE RemoteTranslation(text)
             translatedText == IF Truthy(data) THEN data ELSE text
             c1 == CacheSet(s.translationCache,
                            cacheKey(fromLang, toLang, text), translatedText)
             c2 == IF Len(c1) > maxCacheSize THEN Tail(c1) ELSE c1
         IN [s |-> [s EXCEPT !.translationCache = c2],
             out |-> "resolved", val |-> translatedText,
             event |-> incrementUsage(resp)]
    ELSE \* !response.ok throws, fetch rejects: caught, original text returned;
         \* showSubscriptionError is not called on this path
         [s |-> s, out |-> "resolved", val |-> text, event |-> FALSE]

\* stopSpeechRecognition: stopContinuousRecognitionAsync returns no
\* promise, the field is cleared in the same task
stopSpeechRecognition(s) ==
  IF s.recognizer # 0
    THEN [s EXCEPT !.turns[s.recognizer].rec = "stopped", !.recognizer = 0]
    ELSE s

\* startSpeechRecognition for turn t up to its first suspension: without a
\* speech key startWebSpeechRecognition starts a recognition object that no
\* field keeps; with one the SDK recognizer is stored in this.recognizer
\* and its start is awaited
startSpeechRecognition(s, t) ==
  IF ~s.speechKey
    THEN [s EXCEPT !.turns[t].rec = "listening"]
    ELSE [s EXCEPT !.recognizer = t, !.turns[t].rec = "starting"]

\* speakText up to its first suspension: the Azure SDK when a speech key is
\* configured, the browser's speechSynthesis otherwise
speakText(s, j, language) ==
  IF s.speechKey
    THEN [s EXCEPT !.inv[j].pc = "synth", !.inv[j].audible = TRUE,
                   !.inv[j].voice = voiceMap(language),
                   !.synthesizer = j]
    ELSE [s EXCEPT !.inv[j].pc = "utter", !.inv[j].audible = TRUE,
                   !.inv[j].voice = langMap(language)]

(***************************************************************************)
(* LanguageBridgeToolbar (content/toolbar.ts)                              *)
(***************************************************************************)
\* readText: catch (logs only) and finally
readTextFinally(s, j) ==
  [s EXCEPT !.isReading = FALSE, !.isTranslating = FALSE,
            !.abortController = 0, !.inv[j] = DoneInv,
            !.aborted = @ \ {j}]

\* resumeReading: catch (logs only) and finally
resumeReadingFinally(s, j) ==
  [s EXCEPT !.isReading = FALSE, !.isTranslating = FALSE,
            !.abortController = 0, !.inv[j] = DoneInv,
            !.aborted = @ \ {j}]

\* the caller's handling of speakFromCurrentPosition returning or throwing
LoopExit(s, j) ==
  IF s.inv[j].kind = "resume" THEN resumeReadingFinally(s, j)
  ELSE readTextFinally(s, j)

\* variant: the loop top looks at the signal only
LoopTopIgnoresPause(s, j) ==
  LET a == s.inv[j]
      globalIndex == s.currentSentenceIndex + a.i
  IN IF a.i >= Len(a.rem)
       THEN LoopExit([s EXCEPT !.currentSentenceIndex = 0], j)
     ELSE IF j \in s.aborted
       THEN LoopExit([s EXCEPT !.currentSentenceIndex = globalIndex], j)
     ELSE speakText([s EXCEPT !.inv[j].gi = globalIndex], j, s.userLanguage)

\* top of one iteration of the for loop, i already set
LoopTop(s, j) ==
  LET a == s.inv[j]
      globalIndex == s.currentSentenceIndex + a.i
  IN IF a.i >= Len(a.rem)
       THEN \* finished speaking all sentences
            LoopExit([s EXCEPT !.currentSentenceIndex = 0], j)
     ELSE IF j \in s.aborted \/ s.isPaused
       THEN LoopExit([s EXCEPT !.currentSentenceIndex = globalIndex], j)
     ELSE \* speakSentenceWithPlaybackWait(remainingSentences[i], signal)
          speakText([s EXCEPT !.inv[j].gi = globalIndex], j, s.userLanguage)

\* speakFromCurrentPosition up to its first suspension
speakFromCurrentPosition(s, j) ==
  LET remainingSentences == Slice(s.translationSentences, s.currentSentenceIndex) IN
  IF Len(remainingSentences) = 0
    THEN LoopExit(s, j)
    ELSE LoopTop([s EXCEPT !.inv[j].rem = remainingSentences,
                           !.inv[j].start = s.currentSentenceIndex,
                           !.inv[j].i = 0], j)

\* readText after translateText has returned translatedText
AfterTranslate(s, j, translatedText) ==
  LET s1 == [s EXCEPT !.cachedTranslation = translatedText,
                      !.inv[j].toLang = <<>>,
                      !.translationSentences = splitIntoSentences(translatedText),
                      !.currentSentenceIndex = 0]
  IN IF j \in s1.aborted THEN readTextFinally(s1, j)
     ELSE speakFromCurrentPosition(s1, j)

\* readText from 'Starting new reading' to its first suspension
StartReading(s, j, text) ==
  LET s1 == [s EXCEPT !.isTranslating = TRUE, !.isReading = TRUE,
                      !.isPaused = FALSE, !.abortController = j,
                      !.pauseK = 0,
                      !.inv[j].kind = "read", !.inv[j].text = text]
  IN IF s1.userLanguage # EN
       THEN LET t == translateText(s1, text, EN, s1.userLanguage) IN
            IF t.pending
              THEN [s1 EXCEPT !.inv[j].pc = "translating",
                              !.inv[j].toLang = s1.userLanguage]
              ELSE AfterTranslate(s1, j, t.val)
       ELSE speakFromCurrentPosition(
              [s1 EXCEPT !.translationSentences = splitIntoSentences(text),
                         !.currentSentenceIndex = 0], j)

\* variant: the cursor and the cached translation are not reset
stopReadingKeepsPosition(s) ==
  LET s1 == IF s.abortController # 0
              THEN [s EXCEPT !.aborted = @ \cup {s.abortController},
                             !.abortController = 0]
              ELSE s
      s2 == stopSpeechRecognition(stopSpeaking(s1))
  IN [s2 EXCEPT !.isReading = FALSE, !.isPaused = FALSE,
                !.isTranslating = FALSE,
                !.translationSentences = <<>>, !.pauseK = 0]

stopReading(s) ==
  LET s1 == IF s.abortController # 0
              THEN [s EXCEPT !.aborted = @ \cup {s.abortController},
                             !.abortController = 0]
              ELSE s
      s2 == stopSpeechRecognition(stopSpeaking(s1))
  IN [s2 EXCEPT !.isReading = FALSE, !.isPaused = FALSE,
                !.isTranslating = FALSE, !.cachedTranslation = NullText,
                !.translationSentences = <<>>,
                !.currentSentenceIndex = 0, !.pauseK = 0]

\* variant: no isTranslating check, a busy controller is stopped and restarted
readTextNoMutex(s, j, text) ==
  IF Len(text) = 0 THEN s
  ELSE IF s.isReading \/ s.isPaused
    THEN LET s1 == stopReading(s) IN
         [s1 EXCEPT !.nInv = j,
                    !.inv[j] = [NoInv EXCEPT !.kind = "read", !.pc = "stopDelay",
                                             !.text = text, !.afterStop = TRUE]]
  ELSE StartReading([s EXCEPT !.nInv = j], j, text)

\* variant: the mutex is skipped for the text that is already being read
readTextMutexOtherText(s, j, text) ==
  IF Len(text) = 0 THEN s
  ELSE IF s.isTranslating /\ text = s.selectedText THEN s
  ELSE StartReading([s EXCEPT !.nInv = j], j, text)

\* readText up to its first suspension; j is the new activation
readText(s, j, text) ==
  IF Len(text) = 0 THEN s
  ELSE IF s.isTranslating THEN s
  ELSE IF s.isReading \/ s.isPaused
    THEN LET s1 == stopReading(s) IN
         [s1 EXCEPT !.nInv = j,
                    !.inv[j] = [NoInv EXCEPT !.kind = "read", !.pc = "stopDelay",
                                             !.text = text, !.afterStop = TRUE]]
  ELSE StartReading([s EXCEPT !.nInv = j], j, text)

\* number of sentences completely spoken when pause falls in the gap of the
\* only running loop, 0 otherwise
GapPosition(s) ==
  LET live == {k \in Invs : s.inv[k].pc \in LoopPcs \cup {"translating", "stopDelay"}} IN
  IF \E k \in live : live = {k} /\ s.inv[k].pc = "gap"
    THEN LET k == CHOOSE k \in live : TRUE IN s.inv[k].start + s.inv[k].i + 1
    ELSE 0

\* variant: the translation mutex is left as it is
pauseReadingKeepsMutex(s) ==
  LET s1 == pauseSpeaking(s) IN
  [s1 EXCEPT !.isReading = FALSE, !.isPaused = TRUE,
             !.pauseK = GapPosition(s)]

pauseReading(s) ==
  LET s1 == pauseSpeaking(s) IN
  [s1 EXCEPT !.isReading = FALSE, !.isPaused = TRUE, !.isTranslating = FALSE,
             !.pauseK = GapPosition(s)]

\* resumeReading up to its first suspension; j is the new activation
resumeReading(s, j) ==
  IF ~Truthy(s.cachedTranslation) \/ Len(s.translationSentences) = 0 THEN s
  ELSE speakFromCurrentPosition(
         [s EXCEPT !.isReading = TRUE, !.isPaused = FALSE,
                   !.isTranslating = TRUE, !.abortController = j,
                   !.nInv = j, !.pauseK = 0,
                   !.inv[j] = [NoInv EXCEPT !.kind = "resume"]], j)

toggleReading(s, j) ==
  IF s.isReading THEN Note(pauseReading(s), "pauseReading", <<>>, "")
  ELSE IF s.isPaused /\ Truthy(s.cachedTranslation)
    THEN Note(resumeReading(s, j), "resumeReading", <<>>, "")
  ELSE IF Truthy(s.selectedText)
    THEN Note(readText(s, j, s.selectedText), "readText", s.selectedText,
              IF s.isTranslating THEN "busy" ELSE "")
  ELSE Quiet(s)

(***************************************************************************)
(* Tasks                                                                   *)
(***************************************************************************)
\* a user event: counted, and the activation it may start is the next one
UserEvent(s) == [s EXCEPT !.nOps = s.nOps + 1]
MoreOps == nOps < MaxOps
MoreCalls == nOps < MaxCalls
NewInv == nInv + 1

\* manual text box, Enter key: selectedText = value.trim() when non-empty
SelectText(t) ==
  LET text == Trim(t) IN
  /\ MoreOps
  /\ Len(text) > 0
  /\ Commit(UserEvent(Quiet([Cur EXCEPT !.selectedText = text])))

\* chrome.runtime.onMessage 'settings-updated' with settings.userLanguage
SettingsUpdated(l) ==
  /\ MoreOps
  /\ Commit(UserEvent(Quiet([Cur EXCEPT !.userLanguage = l])))

\* click on #lb-play-pause
ToggleReading ==
  /\ MoreOps
  /\ Commit(UserEvent(toggleReading(Cur, NewInv)))

\* collapse() and hide(): pause when reading
Collapse ==
  /\ MoreOps
  /\ isReading
  /\ Commit(UserEvent(Note(pauseReading(Cur), "pauseReading", <<>>, "")))

\* the 100 ms timer of readText fires
StopDelayElapsed(j) ==
  /\ inv[j].pc = "stopDelay"
  /\ Commit(StartReading(Quiet(Cur), j, inv[j].text))

\* the translator fetch of activation j settles
TranslateSettles(j, resp) ==
  /\ inv[j].pc = "translating"
  /\ LET a == inv[j]
         r == translateWithAzureDirect(Cur, a.text, EN, a.toLang, resp)
         s1 == [r.s EXCEPT !.inv[j].trResp = RespClass(resp),
                           !.lastOp = [op |-> "translateSettled", text |-> a.text,
                                       val |-> r.val, info |-> resp,
                                       out |-> r.out, who |-> j,
                                       event |-> r.event]]
     IN Commit(IF r.out = "rejected" THEN readTextFinally(s1, j)
               ELSE AfterTranslate(s1, j, r.val))

\* speakSentenceWithPlaybackWait after speakText resolved
SpeakResolved(s, j) ==
  IF j \in s.aborted THEN LoopExit(s, j)
  ELSE [s EXCEPT !.currentSentenceIndex = s.inv[j].gi + 1,
                 !.inv[j].pc = "gap", !.inv[j].audible = FALSE]

\* variant: the loop's catch rethrows every error
SpeakRejectedAborts(s, j) ==
  LoopExit([s EXCEPT !.inv[j].audible = FALSE], j)

\* the loop's catch of an error that is neither 'Speech stopped' nor
\* 'Speech paused', then the next iteration
SpeakRejected(s, j) ==
  LoopTop([s EXCEPT !.currentSentenceIndex = s.inv[j].gi + 1,
                    !.inv[j].i = s.inv[j].i + 1,
                    !.inv[j].audible = FALSE], j)

\* variant: the promise resolves when the synthesis request succeeds
SynthCompletedResolves(j) ==
  /\ inv[j].pc = "synth"
  /\ Commit(SpeakResolved(Quiet(Cur), j))

\* speakTextAsync calls back with SynthesizingAudioCompleted
SynthCompleted(j) ==
  /\ inv[j].pc = "synth"
  /\ Commit(Quiet([Cur EXCEPT !.inv[j].pc = "playing", !.playbackTimeout = j]))

\* speakTextAsync calls back with another reason, or its error callback
SynthFailed(j) ==
  /\ inv[j].pc = "synth"
  /\ Commit(SpeakRejected(
       [Cur EXCEPT !.lastOp = [op |-> "speakRejected", text |-> inv[j].rem[inv[j].i + 1],
                               val |-> <<>>, info |-> "", out |-> "", who |-> j,
                               event |-> FALSE]], j))

\* the playback timer of speakWithAzureSDK fires
PlaybackElapsed(j) ==
  /\ inv[j].pc = "playing"
  /\ Commit(SpeakResolved(Quiet(Cur), j))

\* utterance.onend / onerror of fallbackSpeak
UtteranceEnds(j) ==
  /\ inv[j].pc = "utter"
  /\ Commit(SpeakResolved(Quiet(Cur), j))

\* the 400 ms timer between sentences fires
GapElapsed(j) ==
  /\ inv[j].pc = "gap"
  /\ Commit(IF j \in aborted \/ isPaused THEN LoopExit(Quiet(Cur), j)
            ELSE LoopTop([Quiet(Cur) EXCEPT !.inv[j].i = inv[j].i + 1], j))

\* the methods called directly, as a test harness does
ReadTextCall(t) ==
  /\ MoreCalls
  /\ Commit(UserEvent(Note(readText(Cur, NewInv, t), "readText", t,
                           IF isTranslating THEN "busy" ELSE "")))

StopReadingCall ==
  /\ MoreCalls
  /\ Commit(UserEvent(Note(stopReading(Cur), "stopReading", <<>>,
                           IF isReading THEN "reading" ELSE "")))

PauseReadingCall ==
  /\ MoreCalls
  /\ Commit(UserEvent(Note(pauseReading(Cur), "pauseReading", <<>>, "")))

ResumeReadingCall ==
  /\ MoreCalls
  /\ Commit(UserEvent(Note(resumeReading(Cur, NewInv), "resumeReading", <<>>, "")))

Continue ==
  \E j \in Invs :
    \/ StopDelayElapsed(j)
    \/ \E resp \in Responses : TranslateSettles(j, resp)
    \/ SynthCompleted(j)
    \/ SynthFailed(j)
    \/ PlaybackElapsed(j)
    \/ UtteranceEnds(j)
    \/ GapElapsed(j)

\* the toolbar as the page drives it
Next ==
  \/ \E t \in InputTexts : SelectText(t)
  \/ \E l \in Langs : SettingsUpdated(l)
  \/ ToggleReading
  \/ Collapse
  \/ Continue

Spec == Init /\ [][Next]_vars

\* the controller's methods called in any order
NextAPI ==
  \/ \E t \in InputTexts : ReadTextCall(t)
  \/ StopReadingCall
  \/ PauseReadingCall
  \/ ResumeReadingCall
  \/ Continue

SpecAPI == Init /\ [][NextAPI]_vars

\* the events that settle the speakText call of activation j: the SDK's
\* callbacks, the playback timer, the utterance's end or error event
SpeakSettles(j) ==
  \/ SynthCompleted(j)
  \/ SynthFailed(j)
  \/ PlaybackElapsed(j)
  \/ UtteranceEnds(j)

\* the same, where a pending playback timer fires, the SDK calls back and
\* the browser delivers the event of every utterance
SpecAPILive == SpecAPI /\ \A j \in Invs : WF_vars(SpeakSettles(j))

(***************************************************************************)
(* translateText called in sequence: the translation cache                 *)
(***************************************************************************)
\* number of distinct texts offered for translation
MaxTexts == 102

Digits == <<"0", "1", "2", "3", "4", "5", "6", "7", "8", "9">>

\* the k-th text: the decimal numeral of k
TextNo(k) ==
  <<Digits[(k \div 100) + 1], Digits[((k \div 10) % 10) + 1], Digits[(k % 10) + 1]>>

CacheKeyNo(k) == cacheKey(EN, userLanguage, TextNo(k))

\* the number of the text an entry was made for, read off its key
DigitVal(c) == CHOOSE d \in 0..9 : Digits[d + 1] = c
KeyNo(key) ==
  LET n == Len(key) IN
  DigitVal(key[n - 2]) * 100 + DigitVal(key[n - 1]) * 10 + DigitVal(key[n])

\* the caller works through the texts in order and repeats a text until it
\* is cached; it may also ask again for the first text, for the text of the
\* oldest entry and for the text of the newest entry
NextNo ==
  LET nos == {KeyNo(translationCache[k].key) : k \in 1..Len(translationCache)} IN
  IF nos = {} THEN 1
  ELSE (CHOOSE k \in nos : \A m \in nos : m <= k) + 1

RequestNos ==
  ({NextNo} \cap (1..MaxTexts)) \cup {1}
    \cup (IF translationCache = <<>> THEN {}
          ELSE {KeyNo(translationCache[1].key),
                KeyNo(translationCache[Len(translationCache)].key)})

\* translateText(TextNo(k), 'en', userLanguage) up to its first suspension
TranslateCall(k) ==
  /\ inv[1].pc = "none"
  /\ LET text == TextNo(k)
         t == translateText(Cur, text, EN, userLanguage)
     IN Commit(
          IF t.pending
            THEN [Cur EXCEPT
                    !.inv[1] = [NoInv EXCEPT !.kind = "translate",
                                             !.pc = "translating",
                                             !.text = text,
                                             !.toLang = userLanguage],
                    !.lastOp = [NoOp EXCEPT !.op = "translateText",
                                            !.text = text, !.info = "miss"]]
            ELSE [Cur EXCEPT
                    !.lastOp = [NoOp EXCEPT
                                  !.op = "translateText", !.text = text,
                                  !.val = t.val, !.out = "resolved",
                                  !.info = IF CacheHas(translationCache,
                                                       CacheKeyNo(k))
                                             THEN "hit" ELSE "nopassword"]])

\* the fetch of the pending translateText call settles
CacheSettles(resp) ==
  /\ inv[1].pc = "translating"
  /\ inv[1].kind = "translate"
  /\ LET a == inv[1]
         r == translateWithAzureDirect(Cur, a.text, EN, a.toLang, resp)
     IN Commit([r.s EXCEPT
                  !.inv[1] = NoInv,
                  !.lastOp = [op |-> "translateSettled", text |-> a.text,
                              val |-> r.val, info |-> resp, out |-> r.out,
                              who |-> 1, event |-> r.event]])

NextCache ==
  \/ \E k \in RequestNos : TranslateCall(k)
  \/ \E resp \in Responses : CacheSettles(resp)

SpecCache == Init /\ [][NextCache]_vars

(***************************************************************************)
(* splitIntoSentences applied to one text                                  *)
(***************************************************************************)
\* length of the texts segmented
MaxLen == 4

SegChars == {"a", "b", " ", ".", "U00BF"}
SegTexts == UNION {[1..n -> SegChars] : n \in 0..MaxLen}

InitSeg ==
  /\ isReading = FALSE
  /\ isPaused = FALSE
  /\ isTranslating = FALSE
  /\ abortController = 0
  /\ cachedTranslation = NullText
  /\ translationSentences = <<>>
  /\ currentSentenceIndex = 0
  /\ userLanguage = EN
  /\ selectedText \in SegTexts
  /\ aborted = {}
  /\ speechKey = FALSE
  /\ demoPassword = FALSE
  /\ playbackTimeout = 0
  /\ synthesizer = 0
  /\ translationCache = <<>>
  /\ recognizer = 0
  /\ buttons = [r \in Roles |-> ReadyButton(r)]
  /\ turns = [t \in Turns |-> NoTurn]
  /\ nTurns = 0
  /\ inv = [j \in Invs |-> NoInv]
  /\ nInv = 0
  /\ nOps = 0
  /\ pauseK = 0
  /\ lastOp = NoOp

\* this.translationSentences = this.splitIntoSentences(text)
SplitText ==
  /\ lastOp.op = "none"
  /\ Commit([Cur EXCEPT
               !.translationSentences = splitIntoSentences(selectedText),
               !.lastOp = [NoOp EXCEPT !.op = "splitIntoSentences",
                                       !.text = selectedText]])

NextSeg == SplitText

SpecSeg == InitSeg /\ [][NextSeg]_vars

(***************************************************************************)
(* The input paths that set selectedText                                   *)
(***************************************************************************)
MAX_CHARS == 1500

\* a text of n characters made of sentences of fifty characters
SizedText(n) == [k \in 1..n |-> IF k % 50 = 0 THEN "." ELSE "a"]
SizedTexts == {SizedText(n) : n \in {MAX_CHARS - 1, MAX_CHARS, MAX_CHARS + 1}}

\* handleTextSelection, the callback of its 300 ms debounce timer, for a
\* page selection t
PageTextSelected(t) ==
  LET newSelectedText == Trim(t) IN
  /\ MoreOps
  /\ Len(newSelectedText) > 0
  /\ Commit(UserEvent(Quiet(
       [Cur EXCEPT !.selectedText =
          IF Len(newSelectedText) > MAX_CHARS
            THEN SubSeq(newSelectedText, 1, MAX_CHARS)
            ELSE newSelectedText])))

\* manual text box, paste: the callback of the 10 ms timer
PasteText(t) ==
  LET text == Trim(t) IN
  /\ MoreOps
  /\ Len(text) > 0
  /\ Commit(UserEvent(Quiet([Cur EXCEPT !.selectedText = text])))

\* the callback given to GoogleDocsAdapter.onTextSelected
DocsTextSelected(t) ==
  /\ MoreOps
  /\ Commit(UserEvent(Quiet([Cur EXCEPT !.selectedText = t])))

\* the input paths and the play button; the awaited continuations of a
\* read are left pending
NextInput ==
  \/ \E t \in SizedTexts : PageTextSelected(t)
  \/ \E t \in SizedTexts : SelectText(t)
  \/ \E t \in SizedTexts : PasteText(t)
  \/ \E t \in SizedTexts : DocsTextSelected(t)
  \/ ToggleReading

SpecInput == Init /\ [][NextInput]_vars

(***************************************************************************)
(* The conversation panel: teacher and student turns                       *)
(***************************************************************************)
\* the text a recognizer reports as its final result
RecognizedText == TextB

\* the responses the translator gives in a turn: translated, or failed
TurnResponses == {"ok", "neterr"}

\* the turn the latest task belongs to, and whether it was its timer
TurnNote(s, op, t) == [s EXCEPT !.lastOp = [NoOp EXCEPT !.op = op, !.who = t]]

\* finally: the mic button is reset
turnFinally(s, t) ==
  LET role == s.turns[t].role IN
  [s EXCEPT !.buttons[role].listening = FALSE,
            !.buttons[role].label = ReadyLabel(role),
            !.turns[t].pc = "done"]

\* catch: the error line is shown and recognition is stopped
turnCatch(s, t) ==
  LET role == s.turns[t].role IN
  turnFinally(stopSpeechRecognition(
                [s EXCEPT !.buttons[role].transcript = "error"]), t)

\* the handlers are attached and the 10 s timer is set
turnAwaitResult(s, t) ==
  [s EXCEPT !.turns[t].pc = "waiting", !.turns[t].timer = TRUE]

\* after translateText: the transcript entry, then speakText unless the
\* audio mode rules it out
turnAfterTranslate(s, t, shouldPlayAudio) ==
  LET role == s.turns[t].role
      s1 == [s EXCEPT !.buttons[role].transcript = "entry"]
  IN IF shouldPlayAudio THEN [s1 EXCEPT !.turns[t].pc = "speaking"]
     ELSE turnFinally(s1, t)

\* the source and target language of a turn's translateText call
TurnFrom(s, t) == IF s.turns[t].role = "teacher" THEN EN ELSE s.userLanguage
TurnTo(s, t) == IF s.turns[t].role = "teacher" THEN s.userLanguage ELSE EN

\* the final result resolves the promise: recognition is stopped and the
\* text is translated
turnAfterResult(s, t, shouldPlayAudio) ==
  LET s1 == stopSpeechRecognition(s)
      tr == translateText(s1, RecognizedText, TurnFrom(s1, t), TurnTo(s1, t))
  IN IF tr.pending THEN [s1 EXCEPT !.turns[t].pc = "translating"]
     ELSE turnAfterTranslate(s1, t, shouldPlayAudio)

\* variant: the timer's callback rejects nothing
turnTimeoutIgnored(s, t) ==
  [s EXCEPT !.turns[t].timer = FALSE]

\* the callback of the 10 s timer: rejects when no final text has come; a
\* promise that is already settled stays as it is
turnTimeout(s, t) ==
  LET s1 == [s EXCEPT !.turns[t].timer = FALSE] IN
  IF s.turns[t].pc = "waiting" THEN turnCatch(s1, t) ELSE s1

\* handleTeacherSpeak / handleStudentSpeak up to the first suspension
handleSpeak(s, t, role) ==
  LET s1 == [s EXCEPT !.nTurns = t,
                      !.turns[t] = [NoTurn EXCEPT !.role = role],
                      !.buttons[role].listening = TRUE,
                      !.buttons[role].label = "Listening..."]
      s2 == startSpeechRecognition(s1, t)
  IN IF s2.turns[t].rec = "starting"
       THEN [s2 EXCEPT !.turns[t].pc = "starting"]
       ELSE turnAwaitResult(s2, t)

handleTeacherSpeak(s, t) == handleSpeak(s, t, "teacher")
handleStudentSpeak(s, t) == handleSpeak(s, t, "student")

\* click on #lb-teacher-mic
TeacherMicClicked ==
  /\ nTurns < MaxTurns
  /\ Commit(TurnNote(handleTeacherSpeak(Cur, nTurns + 1), "turn", nTurns + 1))

\* click on #lb-student-mic
StudentMicClicked ==
  /\ nTurns < MaxTurns
  /\ Commit(TurnNote(handleStudentSpeak(Cur, nTurns + 1), "turn", nTurns + 1))

\* startContinuousRecognitionAsync calls back: started
RecognitionStarted(t) ==
  /\ turns[t].pc = "starting"
  /\ Commit(TurnNote(turnAwaitResult(
       [Cur EXCEPT !.turns[t].rec =
          IF turns[t].rec = "starting" THEN "listening" ELSE turns[t].rec], t),
       "turn", t))

\* startContinuousRecognitionAsync calls back: error
RecognitionStartFailed(t) ==
  /\ turns[t].pc = "starting"
  /\ turns[t].rec = "starting"
  /\ Commit(TurnNote(turnCatch([Cur EXCEPT !.turns[t].rec = "stopped"], t),
                     "turn", t))

\* the recognizer of turn t reports a final, non-empty result
FinalResult(t, shouldPlayAudio) ==
  /\ turns[t].pc = "waiting"
  /\ turns[t].rec = "listening"
  /\ Commit(TurnNote(turnAfterResult(Cur, t, shouldPlayAudio), "turn", t))

\* the recognizer of turn t reports an error (canceled / onerror)
RecognitionError(t) ==
  /\ turns[t].pc = "waiting"
  /\ turns[t].rec = "listening"
  /\ Commit(TurnNote(turnCatch(Cur, t), "turn", t))

\* the 10 s timer of turn t fires
TurnTimeout(t) ==
  /\ turns[t].timer
  /\ Commit(TurnNote(turnTimeout(Cur, t), "turnTimeout", t))

\* the translator fetch of turn t settles
TurnTranslated(t, resp, shouldPlayAudio) ==
  /\ turns[t].pc = "translating"
  /\ LET r == translateWithAzureDirect(Cur, RecognizedText, TurnFrom(Cur, t),
                                       TurnTo(Cur, t), resp)
     IN Commit(TurnNote(turnAfterTranslate(r.s, t, shouldPlayAudio),
                        "turn", t))

\* speakText of turn t resolves
TurnSpoken(t) ==
  /\ turns[t].pc = "speaking"
  /\ Commit(TurnNote(turnFinally(Cur, t), "turn", t))

\* speakText of turn t rejects (Azure SDK only)
TurnSpeakFailed(t) ==
  /\ turns[t].pc = "speaking"
  /\ speechKey
  /\ Commit(TurnNote(turnCatch(Cur, t), "turn", t))

NextTurns ==
  \/ TeacherMicClicked
  \/ StudentMicClicked
  \/ \E t \in Turns :
       \/ RecognitionStarted(t)
       \/ RecognitionStartFailed(t)
       \/ \E p \in BOOLEAN : FinalResult(t, p)
       \/ RecognitionError(t)
       \/ TurnTimeout(t)
       \/ \E resp \in TurnResponses, p \in BOOLEAN : TurnTranslated(t, resp, p)
       \/ TurnSpoken(t)
       \/ TurnSpeakFailed(t)

\* the panel is used with the default language, userLanguage = 'fa'
InitTurns == Init /\ userLanguage = FA

SpecTurns == InitTurns /\ [][NextTurns]_vars

(***************************************************************************)
(* Properties                                                              *)
(***************************************************************************)
\* a speakText call of activation j is in flight and has not been cancelled
Speaking(j) == inv[j].pc \in {"synth", "playing", "utter"} /\ inv[j].audible

\* the loop of activation j is speaking or will go on to the next sentence
ActiveLoop(j) ==
  \/ Speaking(j)
  \/ inv[j].pc = "gap" /\ j \notin aborted /\ ~isPaused

Translating(j) == inv[j].pc = "translating"

\* C1: at every moment at most one sentence loop is active and at most one
\* speakText call is in flight.
C1_OneLoopOneSpeak ==
  /\ Cardinality({j \in Invs : ActiveLoop(j)}) <= 1
  /\ Cardinality({j \in Invs : Speaking(j)}) <= 1

\* C2: when pause fell in the gap after sentence k (1 <= k < n), resume
\* starts a loop that speaks exactly sentences k+1..n in order and calls
\* translateText for nothing.
C2_ResumeFromNext ==
  [][(lastOp'.op = "resumeReading" /\ pauseK >= 1
        /\ pauseK < Len(translationSentences))
       => /\ nInv' = nInv + 1
          /\ inv'[nInv'].pc \in {"synth", "utter"}
          /\ inv'[nInv'].i = 0
          /\ inv'[nInv'].rem = Slice(translationSentences, pauseK)
          /\ \A j \in Invs : Translating(j)' => Translating(j)]_vars

\* C3 (as claimed): a readText(B) made while A's translation is unresolved
\* starts B's session and cancels A's, so that B is the only text read.
C3_SecondCallWins ==
  [][(lastOp'.op = "readText"
        /\ \E j \in Invs : Translating(j) /\ inv[j].text # lastOp'.text)
       => /\ nInv' = nInv + 1
          /\ inv'[nInv'].kind = "read"
          /\ inv'[nInv'].text = lastOp'.text
          /\ \A j \in Invs : Translating(j) => j \in aborted']_vars

\* C3 (amended): a readText(B) made while A's translation is unresolved and
\* isTranslating is still set is ignored: no activation is started for B,
\* A's activation and its signal are untouched, the cache is not written.
C3_SecondCallIgnored ==
  [][(lastOp'.op = "readText" /\ isTranslating
        /\ \E j \in Invs : Translating(j) /\ inv[j].text # lastOp'.text)
       => /\ nInv' = nInv
          /\ inv' = inv
          /\ aborted' = aborted
          /\ abortController' = abortController
          /\ cachedTranslation' = cachedTranslation]_vars

C3_Witness ==
  /\ lastOp.op = "readText" /\ lastOp.text = TextB /\ lastOp.info = "busy"
  /\ \E j \in Invs : Translating(j) /\ inv[j].text = TextA
  /\ nInv = 1

\* C4: when a session created by a readText that stopped the previous one
\* is translating or speaking, every earlier activation has terminated.
C4_PreviousTornDown ==
  \A j \in Invs :
    (inv[j].afterStop /\ inv[j].pc \in LoopPcs \cup {"translating"})
      => \A k \in 1..(j - 1) : inv[k].pc \in {"none", "done"}

\* C5: a stop() called while isReading leaves the controller idle, with no
\* sentences, cursor 0 and no cached translation.
C5_StopClears ==
  [][(lastOp'.op = "stopReading" /\ isReading)
       => /\ ~isReading' /\ ~isPaused' /\ ~isTranslating'
          /\ translationSentences' = <<>>
          /\ currentSentenceIndex' = 0
          /\ cachedTranslation' = NullText]_vars

C5_Witness ==
  /\ lastOp.op = "stopReading" /\ lastOp.info = "reading"
  /\ \E j \in Invs : inv[j].pc \in LoopPcs /\ inv[j].i >= 1
  /\ ~isReading /\ ~isPaused /\ ~isTranslating
  /\ translationSentences = <<>> /\ currentSentenceIndex = 0
  /\ cachedTranslation = NullText

\* C6: after a network error of the translation the original text is
\* segmented and spoken in the source-language (English) voice.
C6_SourceVoice ==
  \A j \in Invs :
    (inv[j].trResp = "neterr" /\ inv[j].pc \in {"synth", "playing", "utter"})
      => /\ inv[j].rem = Slice(splitIntoSentences(inv[j].text), inv[j].start)
         /\ inv[j].voice = IF speechKey THEN voiceMap(EN) ELSE langMap(EN)

\* C7: when speakText rejects for sentence i with a synthesis failure, the
\* cursor moves past sentence i and, unless paused or cancelled, the loop
\* speaks sentence i+1 next, or completes when i was the last one.
C7_SkipFailedSentence ==
  [][lastOp'.op = "speakRejected"
       => LET j == lastOp'.who
              a == inv[j]
          IN /\ a.pc = "synth"
             /\ (a.i + 1 < Len(a.rem) /\ j \notin aborted /\ ~isPaused)
                  => /\ inv'[j].pc = "synth"
                     /\ inv'[j].i = a.i + 1
                     /\ inv'[j].rem = a.rem
                     /\ currentSentenceIndex' = a.gi + 1
             /\ (a.i + 1 = Len(a.rem))
                  => /\ inv'[j].pc = "done"
                     /\ currentSentenceIndex' = 0]_vars

C7_Witness ==
  /\ lastOp.op = "speakRejected"
  /\ inv[lastOp.who].pc = "synth"
  /\ inv[lastOp.who].i = 1
  /\ inv[lastOp.who].rem[1] = lastOp.text

\* C8: never two translateText calls in flight.
C8_SingleFlight == Cardinality({j \in Invs : Translating(j)}) <= 1

\* C9: while isTranslating is set and the controller is not paused, a
\* readText call starts nothing and leaves the flags, the sentences and the
\* cursor as they were.
C9_BusyIgnored ==
  [][(lastOp'.op = "readText" /\ isTranslating /\ ~isPaused)
       => /\ inv' = inv
          /\ UNCHANGED <<isReading, isPaused, isTranslating,
                         translationSentences, currentSentenceIndex>>]_vars

C9_Witness ==
  /\ lastOp.op = "readText" /\ lastOp.info = "busy"
  /\ isTranslating /\ isReading /\ ~isPaused
  /\ \E j \in Invs : inv[j].pc \in LoopPcs /\ inv[j].rem[1] # lastOp.text
  /\ nInv = 1

\* C10: translateText never rejects, and a failed request resolves to the
\* original text.
C10_TranslateNeverRejects ==
  lastOp.op = "translateSettled"
    => /\ lastOp.out = "resolved"
       /\ lastOp.info \in FailedResponses => lastOp.val = lastOp.text

C10_Witness ==
  /\ lastOp.op = "translateSettled"
  /\ lastOp.info = "neterr"
  /\ lastOp.out = "resolved"
  /\ lastOp.val = lastOp.text

\* C11: the cache never holds more than maxCacheSize entries; a call that
\* is answered from the cache leaves the entries and their order as they
\* were; an insertion goes last and, when the cache was full, evicts the
\* entry inserted earliest, whose lookup is then a miss.
C11_CacheFIFO ==
  [][LET key == cacheKey(EN, userLanguage, lastOp'.text)
         e == [key |-> key, value |-> lastOp'.val]
     IN /\ Len(translationCache') <= maxCacheSize
        /\ lastOp'.op = "translateText" => translationCache' = translationCache
        /\ (lastOp'.op = "translateSettled" /\ lastOp'.info \in OkResponses
              /\ ~CacheHas(translationCache, key))
             => IF Len(translationCache) = maxCacheSize
                  THEN /\ translationCache' = Append(Tail(translationCache), e)
                       /\ ~CacheHas(translationCache', translationCache[1].key)
                  ELSE translationCache' = Append(translationCache, e)]_vars

C11_Witness ==
  /\ lastOp.op = "translateSettled"
  /\ lastOp.text = TextNo(maxCacheSize + 1)
  /\ Len(translationCache) = maxCacheSize
  /\ ~CacheHas(translationCache, CacheKeyNo(1))
  /\ translationCache[1].key = CacheKeyNo(2)

\* C12: a 401, 403 or 429 answer to a translateText call dispatches the
\* subscription-error event, and the call resolves to the original text.
C12_AuthFaultSignalled ==
  (lastOp.op = "translateSettled" /\ lastOp.info \in {"401", "403", "429"})
    => /\ lastOp.event
       /\ lastOp.out = "resolved"
       /\ lastOp.val = lastOp.text

\* the speakText promise of activation j resolves in this step: the loop
\* leaves the await of speakSentenceWithPlaybackWait by another way than
\* its catch of a synthesis failure
SpeakTextResolves(j) ==
  /\ inv[j].pc \in SpeakPcs
  /\ inv'[j].pc \in {"gap", "done"}
  /\ ~(lastOp'.op = "speakRejected" /\ lastOp'.who = j)

\* C13 (as claimed): on both paths a speakText promise resolves only when
\* its utterance has been played to the end.
C13_ResolvesAfterPlayback ==
  [][\A j \in Invs :
       SpeakTextResolves(j)
         => inv[j].pc \in {"playing", "utter"} /\ inv[j].audible]_vars

\* C13 (amended): on the Azure path a speakText promise resolves only when
\* the playback timer set at the end of a successful synthesis fires, never
\* when the synthesis request succeeds; on the fallback path it resolves
\* when the utterance's end or error event fires, played to the end or not.
C13_ResolvesOnTimerOrEvent ==
  [][\A j \in Invs :
       /\ SpeakTextResolves(j)
            => \/ inv[j].pc = "playing" /\ speechKey
               \/ inv[j].pc = "utter" /\ ~speechKey
       /\ (inv[j].pc = "synth" /\ inv'[j] # inv[j]
             /\ ~(lastOp'.op = "speakRejected" /\ lastOp'.who = j))
            => /\ inv'[j].pc \in {"synth", "playing"}
               /\ inv'[j].i = inv[j].i
               /\ currentSentenceIndex' = currentSentenceIndex]_vars

C13_Witness ==
  /\ speechKey
  /\ \E j \in Invs : /\ inv[j].pc = "gap"
                      /\ inv[j].voice = voiceMap(userLanguage)
                      /\ currentSentenceIndex = inv[j].gi + 1

\* the characters of a text that are neither terminators nor white space
IsContent(c) == c \notin Terminators \cup WhiteSpace
Content(str) == SelectSeq(str, IsContent)

RECURSIVE Flatten(_)
Flatten(ss) == IF ss = <<>> THEN <<>> ELSE Head(ss) \o Flatten(Tail(ss))

\* number of terminators of a text
TerminatorCount(str) ==
  Cardinality({k \in 1..Len(str) : str[k] \in Terminators})

\* every terminator of the text closes a sentence of its own: it follows a
\* character that is no terminator
SingleTerminators(str) ==
  \A k \in 1..Len(str) :
    str[k] \in Terminators => k > 1 /\ str[k - 1] \notin Terminators

\* text that is not blank follows the last terminator, or there is none
TrailingText(str) ==
  \E k \in 1..Len(str) :
    /\ IsContent(str[k])
    /\ \A m \in k..Len(str) : str[m] \notin Terminators

\* C14: a text with N terminators yields N sentences, or N+1 when
\* unterminated text follows the last one, and the sentences together hold
\* every character of the text that is no terminator and no white space.
C14_CountAndContent ==
  lastOp.op = "splitIntoSentences"
    => LET N == TerminatorCount(lastOp.text) IN
       /\ SingleTerminators(lastOp.text)
            => Len(translationSentences) =
                 IF TrailingText(lastOp.text) THEN N + 1 ELSE N
       /\ Content(Flatten(translationSentences)) = Content(lastOp.text)

\* C15: every returned sentence is trimmed and not empty; a text without
\* terminator yields itself, trimmed, as the only sentence; an empty or
\* blank text yields no sentence.
C15_TrimmedNonEmpty ==
  lastOp.op = "splitIntoSentences"
    => /\ \A k \in 1..Len(translationSentences) :
            /\ translationSentences[k] # <<>>
            /\ Trim(translationSentences[k]) = translationSentences[k]
       /\ Trim(lastOp.text) = <<>> => translationSentences = <<>>
       /\ (Trim(lastOp.text) # <<>>
             /\ \A k \in 1..Len(lastOp.text) : lastOp.text[k] \notin Terminators)
            => translationSentences = <<Trim(lastOp.text)>>

C15_Witness ==
  /\ lastOp.op = "splitIntoSentences"
  /\ lastOp.text = <<" ", "a", "b", " ">>
  /\ translationSentences = << <<"a", "b">> >>

\* C16: no returned sentence ends at an inverted question mark unless the
\* text itself ends there, and an inverted question mark that opens a word
\* is returned in front of it.
C16_InvertedMarkOpens ==
  lastOp.op = "splitIntoSentences"
    => /\ \A k \in 1..Len(translationSentences) :
            translationSentences[k][Len(translationSentences[k])] = "U00BF"
              => /\ k = Len(translationSentences)
                 /\ Trim(lastOp.text)[Len(Trim(lastOp.text))] = "U00BF"
       /\ \A p \in 1..(Len(lastOp.text) - 1) :
            (lastOp.text[p] = "U00BF" /\ IsContent(lastOp.text[p + 1]))
              => \E k \in 1..Len(translationSentences) :
                   \E q \in 1..(Len(translationSentences[k]) - 1) :
                     /\ translationSentences[k][q] = "U00BF"
                     /\ translationSentences[k][q + 1] = lastOp.text[p + 1]

\* C17: every text handed to readText has at most MAX_CHARS characters.
C17_AtMostMaxChars ==
  lastOp.op = "readText" => Len(lastOp.text) <= MAX_CHARS

\* C18: when the 10 s timer of a turn fires and no final result has come,
\* the turn ends with the error line shown and its mic button ready again:
\* no 'listening' class, the label restored.
C18_TimeoutResetsButton ==
  [][\A t \in Turns :
       (lastOp'.op = "turnTimeout" /\ lastOp'.who = t /\ turns[t].pc = "waiting")
         => LET role == turns[t].role IN
            /\ turns'[t].pc = "done"
            /\ buttons'[role].transcript = "error"
            /\ ~buttons'[role].listening
            /\ buttons'[role].label = ReadyLabel(role)]_vars

C18_Witness ==
  /\ lastOp.op = "turnTimeout"
  /\ turns[lastOp.who].pc = "done"
  /\ turns[lastOp.who].role = "student"
  /\ buttons["student"] = [listening |-> FALSE, label |-> "Student Speak",
                           transcript |-> "error"]

\* the latest task belongs to a turn of the other role than turn t
OtherRoleActs(t) ==
  /\ lastOp'.who \in Turns
  /\ lastOp'.who # t
  /\ turns'[lastOp'.who].role # turns[t].role

\* C19: a teacher turn and a student turn do not touch each other's
\* recognizer: a task of one never stops the recognizer the other started,
\* and never takes the recognizer field from it while that recognizer is
\* starting or listening.
C19_OwnRecognizerOnly ==
  [][\A t \in Turns :
       OtherRoleActs(t)
         => /\ ~(turns[t].rec \in {"starting", "listening"}
                   /\ turns'[t].rec = "stopped")
            /\ ~(recognizer = t /\ turns[t].rec \in {"starting", "listening"}
                   /\ recognizer' # t)]_vars

\* C20: the cursor lies between 0 and the number of sentences, and while
\* one loop is running it equals the number of sentences of the session
\* that have been spoken or skipped.
C20_CursorCountsSpoken ==
  /\ currentSentenceIndex >= 0
  /\ currentSentenceIndex <= Len(translationSentences)
  /\ \A j \in Invs :
       (inv[j].pc \in LoopPcs /\ \A k \in Invs \ {j} : inv[k].pc \in {"none", "done"})
         => currentSentenceIndex =
              inv[j].start + inv[j].i + (IF inv[j].pc = "gap" THEN 1 ELSE 0)

\* the step is a call of stopReading: the stop button's method, or a
\* readText that finds the controller reading or paused
ExplicitStop ==
  \/ lastOp'.op = "stopReading"
  \/ lastOp'.op = "readText" /\ ~isTranslating /\ (isReading \/ isPaused)

\* the step runs the loop of activation j to 'Finished speaking all
\* sentences'
LoopCompletes(j) ==
  /\ inv[j].pc \in LoopPcs
  /\ inv'[j].pc = "done"
  /\ inv[j].i + 1 = Len(inv[j].rem)
  /\ j \notin aborted
  /\ inv[j].pc = "gap" => ~isPaused

\* the step starts a session that has not been stopped: readText assigns the
\* sentences and sets the cursor to 0
SessionStarts(j) ==
  /\ inv[j].pc \in {"none", "stopDelay", "translating"}
  /\ inv'[j].kind = "read" \/ inv'[j].pc = "done"
  /\ inv'[j].pc \notin {"none", "stopDelay", "translating"}
  /\ j \notin aborted

\* C21: the cursor is lowered only by an explicit stop, by a loop that has
\* spoken all its sentences, or by the start of a session; a pause, a
\* resume and a late result of a stopped or paused loop never lower it.
C21_CursorOnlyIncreases ==
  [][currentSentenceIndex' < currentSentenceIndex
       => \/ ExplicitStop
          \/ \E j \in Invs : LoopCompletes(j) \/ SessionStarts(j)]_vars

\* the step makes activation j call speakText for a sentence
StartsSentence(j) ==
  /\ inv'[j].pc \in {"synth", "utter"}
  /\ inv'[j].audible
  /\ inv[j].pc \notin SpeakPcs \/ inv'[j].i # inv[j].i

\* activation j entered its sentence loop in the task that created it: a
\* resume, or a readText that neither waited for a stop nor for a fetch
InLoopSinceStart(j) ==
  \/ inv[j].kind = "resume"
  \/ inv[j].kind = "read" /\ ~inv[j].afterStop /\ inv[j].trResp = "none"

\* a resume has started an activation after j: a pause came in between,
\* while the loop of j was running
ResumedAfter(j) ==
  \E k \in Invs : k > j /\ k <= nInv /\ inv[k].kind = "resume"

\* C22: a pause in state Reading leaves the controller paused and not
\* reading, and the loop that was running when pause was called starts no
\* sentence any more, also not after a resume.
C22_PausedLoopSilent ==
  [][/\ (lastOp'.op = "pauseReading" /\ isReading) => (isPaused' /\ ~isReading')
     /\ \A j \in Invs :
          (inv[j].pc \in LoopPcs /\ InLoopSinceStart(j) /\ ResumedAfter(j))
            => ~StartsSentence(j)]_vars

\* the step is a click on the play button
PlayClicked == nOps' = nOps + 1 /\ lastOp'.op \in {"resumeReading", "readText"}

\* C23: a click on play in state Paused, with sentences left after the
\* cursor, makes the controller read again with a new abort controller, and
\* the loop it starts speaks the cached sentences from the cursor on.
C23_ResumeContinues ==
  [][(PlayClicked /\ isPaused /\ ~isReading
        /\ currentSentenceIndex < Len(translationSentences))
       => /\ isReading' /\ ~isPaused'
          /\ nInv' = nInv + 1
          /\ abortController' = nInv'
          /\ nInv' \notin aborted'
          /\ translationSentences' = translationSentences
          /\ inv'[nInv'].pc \in {"synth", "utter"}
          /\ inv'[nInv'].rem = Slice(translationSentences, currentSentenceIndex)]_vars

\* the step ends the sentence loop of activation j, and the loop was
\* neither stopped nor left because of a pause
LoopEndsUnforced(j) ==
  /\ inv[j].pc \in LoopPcs \cup {"none"}
  /\ inv'[j].pc = "done"
  /\ j \notin aborted
  /\ ~isPaused'

\* C24: when a sentence loop ends without having been paused or stopped,
\* the controller is idle, the cursor is 0, and the cached translation and
\* the sentences are as they were.
C24_EndsIdleAtZero ==
  [][\A j \in Invs :
       LoopEndsUnforced(j)
         => /\ ~isReading' /\ ~isPaused' /\ ~isTranslating'
            /\ currentSentenceIndex' = 0
            /\ cachedTranslation' = cachedTranslation
            /\ translationSentences' = translationSentences]_vars

\* the step is a continuation of activation j (no user event), and j's
\* signal was aborted by stopReading
StoppedSessionRuns(j) ==
  /\ j \in aborted
  /\ nOps' = nOps
  /\ inv'[j] # inv[j]

\* C25: a continuation of a session that stopReading has stopped changes
\* neither the cached translation, nor the sentences, nor the cursor, nor
\* the isReading / isTranslating flags.
C25_StoppedSessionWritesNothing ==
  [][\A j \in Invs :
       StoppedSessionRuns(j)
         => UNCHANGED <<cachedTranslation, translationSentences,
                        currentSentenceIndex, isReading, isTranslating>>]_vars

\* C26: every speakText call that is pending is eventually settled, also
\* when stopSpeaking or pauseSpeaking was called in the meantime.
C26_SpeakSettles ==
  \A j \in Invs : []<>(inv[j].pc \notin SpeakPcs)

\* C27: the flags are always one of idle (F,F,F), reading (T,F,T) and
\* paused (F,T,F): isTranslating equals isReading, and isReading and
\* isPaused are never both set.
C27_FlagTriple ==
  <<isReading, isPaused, isTranslating>>
    \in {<<FALSE, FALSE, FALSE>>, <<TRUE, FALSE, TRUE>>, <<FALSE, TRUE, FALSE>>}

C27_Witness ==
  /\ isPaused /\ ~isReading /\ ~isTranslating
  /\ lastOp.op = "none"
  /\ nInv = 1 /\ inv[1].pc = "done"

\* C28: no task that leaves the controller paused starts a sentence: a loop
\* that was translating, speaking or in its gap when pause was called
\* calls speakText for nothing while isPaused is set.
C28_NoSpeakWhilePaused ==
  [][\A j \in Invs : StartsSentence(j) => ~isPaused']_vars

\* a loop whose speak failed while the controller was paused has left at
\* the loop top without speaking the next sentence
C28_Witness ==
  /\ isPaused
  /\ lastOp.op = "speakRejected"
  /\ inv[lastOp.who].pc = "done"
  /\ currentSentenceIndex < Len(translationSentences)

\* the step ends the wait of turn t for its final result: by the result,
\* by an error or by the timer; each of these tasks calls
\* stopSpeechRecognition
StopsRecognition(t) == turns[t].pc = "waiting" /\ turns'[t].pc # "waiting"

\* a recognition that was started is still running: it listens, or its
\* start is pending, and it can deliver results
RecognitionActive(s, t) == s.turns[t].rec \in {"starting", "listening"}

\* C29: when a task has called stopSpeechRecognition, no recognition that
\* was started before is still active, with the Azure SDK recognizer and
\* with the browser's recognition alike.
C29_StopEndsRecognition ==
  [][(\E t \in Turns : StopsRecognition(t))
       => \A u \in Turns : ~RecognitionActive([turns |-> turns'], u)]_vars

\* the sentence is a translation delivered by the translator: the session's
\* text was translated into the target language, fa
IsTranslation(sentence) ==
  \E k \in 1..Len(sentence) : sentence[k] \in {"A", "B", "C", "D"}

\* the voice speakText uses for a language with the backend in use
VoiceFor(language) == IF speechKey THEN voiceMap(language) ELSE langMap(language)

\* C30: a sentence of a session whose text was translated is spoken in the
\* language it was translated into, whatever userLanguage has become in
\* the meantime.
C30_SessionLanguage ==
  \A j \in Invs :
    (Speaking(j) /\ IsTranslation(inv[j].rem[inv[j].i + 1]))
      => inv[j].voice = VoiceFor(FA)
====
